---- MODULE Spec2Model ----
(***************************************************************************)
(* Model of src/src/inference.py: the batch inference driver, the          *)
(* inference step, annotate_image, denormalize and the test transform.     *)
(*                                                                         *)
(* Pixel arithmetic is exact rational arithmetic (float32 rounding is not  *)
(* modelled).  Spatial sizes are scaled down: IMAGE_RESIZE and CROP_SIZE   *)
(* stand for 256 and 224.                                                  *)
(***************************************************************************)
EXTENDS Integers, Sequences, FiniteSets, TLC

(* ------------------------------ bounds -------------------------------- *)

\* side of the resized image (256 in the source, scaled down)
IMAGE_RESIZE == 3
\* side of the centre crop (224 in the source, scaled down)
CROP_SIZE == 2
\* how many times the driver is started on the same input directory
MaxRuns == 2
\* number of distinct weight settings a readable checkpoint may hold
NumWeights == 14

(* --------------------------- rational numbers -------------------------- *)

Abs(a) == IF a < 0 THEN -a ELSE a

Min(a, b) == IF a <= b THEN a ELSE b

RECURSIVE GCD(_, _)
GCD(a, b) == IF b = 0 THEN a ELSE GCD(b, a % b)

\* the fraction n/d (d > 0) in lowest terms
Rat(n, d) ==
    LET g == GCD(Abs(n), d)
    IN  IF n = 0 THEN [n |-> 0, d |-> 1] ELSE [n |-> n \div g, d |-> d \div g]

RInt(k) == [n |-> k, d |-> 1]

RAdd(a, b) ==
    LET g == GCD(a.d, b.d)
        l == (a.d \div g) * b.d
    IN  Rat(a.n * (l \div a.d) + b.n * (l \div b.d), l)

RSub(a, b) == RAdd(a, [n |-> -b.n, d |-> b.d])

RMul(a, b) ==
    LET g1 == IF a.n = 0 THEN b.d ELSE GCD(Abs(a.n), b.d)
        g2 == IF b.n = 0 THEN a.d ELSE GCD(Abs(b.n), a.d)
    IN  Rat((a.n \div g1) * (b.n \div g2), (a.d \div g2) * (b.d \div g1))

\* a / b for b > 0
RDiv(a, b) == RMul(a, [n |-> b.d, d |-> b.n])

RLess(a, b) == a.n * b.d < b.n * a.d

\* torch.clamp(v, 0, 1) on one value
Clamp01(v) == IF v.n < 0 THEN RInt(0) ELSE IF v.n > v.d THEN RInt(1) ELSE v

InUnit(v) == v.n >= 0 /\ v.n <= v.d

(* ------------------------------ tensors -------------------------------- *)

\* all index tuples of an array of the given shape (1-based)
RECURSIVE Indices(_)
Indices(shape) ==
    IF shape = <<>> THEN {<<>>}
    ELSE {<<k>> \o t : k \in 1..Head(shape), t \in Indices(Tail(shape))}

NONE == [shape |-> <<>>, data |-> "None"]

(* ---------------------- class names (class_names.py) -------------------- *)

CLASS_NAMES == <<"class_a", "class_b", "class_c">>

\* faulty variant of PyIndexOk: an index check that rejects negative indices
PyIndexOk_NonNegative(list, k) == 0 <= k /\ k < Len(list)

\* text[k] of a Python list: negative k counts from the end
PyIndexOk(list, k) == -Len(list) <= k /\ k < Len(list)

PyIndex(list, k) == IF k >= 0 THEN list[k + 1] ELSE list[Len(list) + k + 1]

(* ------------------------- transform (lines 33-45) ---------------------- *)

mean == <<Rat(485, 1000), Rat(456, 1000), Rat(406, 1000)>>

std == <<Rat(229, 1000), Rat(224, 1000), Rat(225, 1000)>>

\* cv2.cvtColor with COLOR_BGR2RGB / COLOR_RGB2BGR on an H x W x 3 array:
\* the channel order is reversed
SwapRB(img) ==
    [shape |-> img.shape,
     data |-> [idx \in Indices(img.shape) |->
              img.data[<<idx[1], idx[2], 4 - idx[3]>>]]]

\* transforms.ToPILImage(): same pixels, H x W x 3
ToPILImage(img) == img

\* transforms.Resize((size, size)): exact resize to size x size, not aspect
\* preserving (the interpolation weights are abstracted to nearest-neighbour
\* sampling)
Resize(img, size) ==
    [shape |-> <<size, size, 3>>,
     data |-> [idx \in Indices(<<size, size, 3>>) |->
              img.data[<<((idx[1] - 1) * img.shape[1]) \div size + 1,
                         ((idx[2] - 1) * img.shape[2]) \div size + 1,
                         idx[3]>>]]]

\* transforms.CenterCrop(crop)
CenterCrop(img, crop) ==
    LET top  == (img.shape[1] - crop) \div 2
        left == (img.shape[2] - crop) \div 2
    IN  [shape |-> <<crop, crop, 3>>,
         data |-> [idx \in Indices(<<crop, crop, 3>>) |->
                  img.data[<<idx[1] + top, idx[2] + left, idx[3]>>]]]

\* transforms.ToTensor(): H x W x C bytes -> C x H x W floats in [0,1]
ToTensor(img) ==
    [shape |-> <<img.shape[3], img.shape[1], img.shape[2]>>,
     data |-> [idx \in Indices(<<img.shape[3], img.shape[1], img.shape[2]>>) |->
              Rat(img.data[<<idx[2], idx[3], idx[1]>>], 255)]]

\* transforms.Normalize(mean, std) on a C x H x W tensor
Normalize(t) ==
    [shape |-> t.shape,
     data |-> [idx \in Indices(t.shape) |->
              RDiv(RSub(t.data[idx], mean[idx[1]]), std[idx[1]])]]

\* the composition returned by get_test_transform(image_size), applied to img
get_test_transform(image_size, img) ==
    Normalize(ToTensor(CenterCrop(Resize(ToPILImage(img), image_size), CROP_SIZE)))

\* torch.unsqueeze(t, 0)
Unsqueeze0(t) ==
    [shape |-> <<1>> \o t.shape,
     data |-> [idx \in Indices(<<1>> \o t.shape) |-> t.data[Tail(idx)]]]

(* ------------------------ denormalize (lines 47-55) --------------------- *)

\* for t, m, s in zip(x, mean, std): t.mul_(s).add_(m)
\* zip walks the FIRST dimension of x; slice k of it is scaled by std[k] and
\* shifted by mean[k]; slices beyond the shorter of the three are left alone.
denormalize_inplace(x) ==
    [shape |-> x.shape,
     data |-> [idx \in Indices(x.shape) |->
              IF idx[1] <= Min(x.shape[1], Min(Len(mean), Len(std)))
              THEN RAdd(RMul(x.data[idx], std[idx[1]]), mean[idx[1]])
              ELSE x.data[idx]]]

\* return torch.clamp(x, 0, 1)
denormalize(x) ==
    LET y == denormalize_inplace(x)
    IN  [shape |-> y.shape,
         data |-> [idx \in Indices(y.shape) |-> Clamp01(y.data[idx])]]

(* ---------------------- annotate_image (lines 57-74) -------------------- *)

\* Tensor.squeeze(0): drops the first dimension when its size is 1
Squeeze0(t) ==
    IF t.shape[1] = 1
    THEN [shape |-> Tail(t.shape),
          data |-> [idx \in Indices(Tail(t.shape)) |-> t.data[<<1>> \o idx]]]
    ELSE t

\* Tensor.permute((1, 2, 0)) on a 3-dimensional tensor
Permute120(t) ==
    [shape |-> <<t.shape[2], t.shape[3], t.shape[1]>>,
     data |-> [idx \in Indices(<<t.shape[2], t.shape[3], t.shape[1]>>) |->
              t.data[<<idx[3], idx[1], idx[2]>>]]]

\* the pixels (row, column) that the glyphs of `text` cover when drawn from
\* (5, 25) with thickness 2, clipped to an h x w image (scaled down: the top
\* row, one column per character)
TextPixels(text, h, w) == {<<1, c>> : c \in 1..Min(w, Len(text))}

\* cv2.putText(img, text, (5, 25), FONT_HERSHEY_SIMPLEX, 0.7, (0, 0, 255), 2,
\* lineType=cv2.LINE_AA) on a float32 B,G,R image: every covered pixel is set
\* to the colour scalar as given, B = 0.0, G = 0.0, R = 255.0
putText(img, text) ==
    LET color == <<RInt(0), RInt(0), RInt(255)>>
        on    == TextPixels(text, img.shape[1], img.shape[2])
    IN  [shape |-> img.shape,
         data |-> [idx \in Indices(img.shape) |->
                  IF <<idx[1], idx[2]>> \in on THEN color[idx[3]]
                  ELSE img.data[idx]]]

(* ------------------------ inference (lines 76-99) ----------------------- *)

\* a float that is not a number
NaN == [n |-> 0, d |-> 0]

IsNaN(v) == v.d = 0

RECURSIVE Pow2(_)
Pow2(k) == IF k <= 0 THEN 1 ELSE 2 * Pow2(k - 1)

RECURSIVE SumSeq(_)
SumSeq(q) == IF q = <<>> THEN 0 ELSE Head(q) + SumSeq(Tail(q))

\* F.softmax over one row of integer-valued scores: exp(s_k) / sum_j exp(s_j)
\* (the base of the exponential is taken as 2, which keeps the values
\* rational and their order); a NaN score makes the whole row NaN
SoftmaxRow(row) ==
    IF \E k \in DOMAIN row : IsNaN(row[k]) THEN [k \in DOMAIN row |-> NaN]
    ELSE LET lo == CHOOSE m \in {row[k].n : k \in DOMAIN row} :
                       \A k \in DOMAIN row : m <= row[k].n
             w  == [k \in DOMAIN row |-> Pow2(row[k].n - lo)]
         IN  [k \in DOMAIN row |-> Rat(w[k], SumSeq(w))]

\* F.softmax(outputs, dim=1) on a batch x classes array
Softmax(outs) == [b \in DOMAIN outs |-> SoftmaxRow(outs[b])]

\* row-major flattening of a batch x classes array
RECURSIVE Flatten(_)
Flatten(rows) == IF rows = <<>> THEN <<>> ELSE Head(rows) \o Flatten(Tail(rows))

\* faulty variant of ArgMax: the 1-based position instead of the 0-based index
ArgMax_OneBased(a) ==
    LET flat == Flatten(a)
        nans == {k \in DOMAIN flat : IsNaN(flat[k])}
        best == {k \in DOMAIN flat : \A j \in DOMAIN flat : ~RLess(flat[k], flat[j])}
        First(S) == CHOOSE k \in S : \A j \in S : k <= j
    IN  IF nans # {} THEN First(nans) ELSE First(best)

\* np.argmax(a): 0-based index, in the flattened array, of the first NaN if
\* there is one and of the first maximum otherwise
ArgMax(a) ==
    LET flat == Flatten(a)
        nans == {k \in DOMAIN flat : IsNaN(flat[k])}
        best == {k \in DOMAIN flat : \A j \in DOMAIN flat : ~RLess(flat[k], flat[j])}
        First(S) == CHOOSE k \in S : \A j \in S : k <= j
    IN  IF nans # {} THEN First(nans) - 1 ELSE First(best) - 1

(* ------------------- the network (model.py, black box) ------------------ *)

ScoreValues == <<RInt(0), RInt(1), NaN>>

RECURSIVE Pow3(_)
Pow3(k) == IF k <= 0 THEN 1 ELSE 3 * Pow3(k - 1)

\* the v-th vector of num_classes scores over ScoreValues
ScoreVector(v, num_classes) ==
    [c \in 1..num_classes |-> ScoreValues[((v \div Pow3(c - 1)) % 3) + 1]]

\* model(image): one row of num_classes raw scores per image of the batch,
\* a fixed function of the weights and of the input tensor; over the weight
\* settings and the images every vector of ScoreValues is returned
Forward(m, x) ==
    [b \in 1..x.shape[1] |->
        ScoreVector(2 * m.weights + (IF x.data[<<b, 1, 1, 1>>].n < 0 THEN 1 ELSE 0),
                    m.num_classes)]

(* ---------------------------- the file system -------------------------- *)

\* directory entries of the --input directory and what each name ends in
FileNames == {"a.jpg", "b.jpg", "c.png"}

Extension == [name \in FileNames |->
                 IF name \in {"a.jpg", "b.jpg"} THEN "jpg" ELSE "png"]

\* what a file of the input directory may hold
Contents == [FileNames -> {"absent", "corrupt", "img1", "img2", "img3"}]

PixelLevels == <<0, 51, 102, 204, 255>>

KindNo == [kind \in {"img1", "img2", "img3"} |->
              IF kind = "img1" THEN 1 ELSE IF kind = "img2" THEN 2 ELSE 3]

\* the decoded pixels of a readable image file: H x W x 3 bytes, B,G,R order
Decode(kind) ==
    [shape |-> <<3, 2, 3>>,
     data |-> [idx \in Indices(<<3, 2, 3>>) |->
              PixelLevels[((2 * KindNo[kind] + idx[1] + 2 * idx[2] + 3 * idx[3])
                              % Len(PixelLevels)) + 1]]]

\* the --input directory given on the command line, as path components
InputDir == <<"data", "test">>

\* os.path.join
PathJoin(a, b) == a \o b

\* faulty variant of MatchesJpg: the pattern "*" instead of "*.jpg"
MatchesAny(name) == Extension[name] \in {"jpg", "png"}

\* fnmatch of a directory entry against "*.jpg"
MatchesJpg(name) == Extension[name] = "jpg"

\* the names glob.glob(os.path.join(args.input, "*.jpg")) finds in directory d
GlobNames(d) == {name \in FileNames : d[name] # "absent" /\ MatchesJpg(name)}

\* what the file at a path inside directory d holds
FileAt(d, path) == d[path[Len(path)]]

\* every order in which a set of names may be enumerated
Orders(S) ==
    {q \in [1..Cardinality(S) -> S] : \A j, k \in DOMAIN q : j # k => q[j] # q[k]}

\* faulty variant of LastComponent: split(os.path.sep)[0]
FirstComponent(path) == path[1]

\* image_path.split(os.path.sep)[-1]
LastComponent(path) == path[Len(path)]

\* conversion of one value to an 8-bit sample on writing: rounded, saturated
Saturate8(v) ==
    LET r == (2 * v.n + v.d) \div (2 * v.d)
    IN  IF r < 0 THEN 0 ELSE IF r > 255 THEN 255 ELSE r

\* the samples cv2.imwrite stores for the array img * 255.
Encode255(img) ==
    [shape |-> img.shape,
     data |-> [idx \in Indices(img.shape) |->
              Saturate8(RMul(img.data[idx], RInt(255)))]]

(* -------------------------------- state --------------------------------- *)

VARIABLES
    pc,              \* the statement the process is at
    run,             \* how many times the driver has been started
    args_input,      \* args.input: path components, <<>> when --input is missing
    inputFiles,      \* the input directory: file name -> what the file holds
    ckptFile,        \* the file at args.weights
    outDirExists,    \* whether infer_result_path exists on disk
    outFiles,        \* files on disk under infer_result_path: path -> samples
    ioLog,           \* the I/O this process has performed, in order
    checkpoint,      \* the object torch.load returned
    model,           \* the network: mode, weights, number of classes
    all_image_paths, \* the list glob.glob returned
    i,               \* 1-based position of the loop in all_image_paths
    image,           \* the driver's / inference's `image`
    grad_enabled,    \* torch's gradient-tracking flag
    grad_prev,       \* the flag torch.no_grad() saved on entry
    exc,             \* an exception is propagating out of the with block
    counter,         \* inference's local counter
    outputs,         \* raw scores of the forward pass
    predictions,     \* softmax of outputs
    output_class,    \* np.argmax(predictions)
    ann_image,       \* annotate_image's local `image`
    class_name,      \* annotate_image's local class_name
    result,          \* the array inference returned
    image_name,      \* base name of the current image path
    predicted,       \* this run: image path -> class id used for annotation
    failedAt,        \* position of the first image an operation failed on, or 0
    prev             \* outputs and predictions of the previous completed run

vars == <<pc, run, args_input, inputFiles, ckptFile, outDirExists, outFiles,
          ioLog, checkpoint, model, all_image_paths, i, image, grad_enabled,
          grad_prev, exc, counter, outputs, predictions, output_class,
          ann_image, class_name, result, image_name, predicted, failedAt, prev>>

\* os.path.join('..', 'outputs', 'inference_results', 'image_outputs')
infer_result_path == <<"..", "outputs", "inference_results", "image_outputs">>

\* what the file at args.weights may be
CheckpointFiles ==
    {[state |-> "missing", weights |-> 0], [state |-> "malformed", weights |-> 0]}
    \cup {[state |-> "ok", weights |-> w] : w \in 0..(NumWeights - 1)}

\* the input directories considered: a.jpg and b.jpg are absent, unreadable
\* or hold an image; c.png always holds an image
InputDirs ==
    {d \in Contents : /\ d["a.jpg"] \in {"absent", "corrupt", "img1"}
                      /\ d["b.jpg"] \in {"absent", "corrupt", "img2"}
                      /\ d["c.png"] = "img3"}

\* the variables of one process, as they are when the interpreter starts
FreshProcess ==
    /\ pc = "parse_args"
    /\ ioLog = <<>>
    /\ checkpoint = [state |-> "unset", weights |-> 0]
    /\ model = [built |-> FALSE, training |-> TRUE, weights |-> 0, num_classes |-> 0]
    /\ all_image_paths = <<>>
    /\ i = 0
    /\ image = NONE
    /\ grad_enabled = TRUE
    /\ grad_prev = TRUE
    /\ exc = FALSE
    /\ counter = 0
    /\ outputs = <<>>
    /\ predictions = <<>>
    /\ output_class = 0
    /\ ann_image = NONE
    /\ class_name = ""
    /\ result = NONE
    /\ image_name = ""
    /\ predicted = <<>>
    /\ failedAt = 0

Init ==
    /\ FreshProcess
    /\ run = 1
    /\ args_input \in {<<>>, InputDir}
    /\ inputFiles \in InputDirs
    /\ ckptFile \in CheckpointFiles
    /\ outDirExists = FALSE
    /\ outFiles = <<>>
    /\ prev = [files |-> <<>>, predicted |-> <<>>]

diskVars == <<args_input, inputFiles, ckptFile>>

inferVars == <<grad_enabled, grad_prev, exc, counter, outputs, predictions,
               output_class>>

annVars == <<ann_image, class_name, result>>

\* the path of the image the loop is at
image_path == all_image_paths[i]

(* --------------------------- driver (lines 15-26) ----------------------- *)

\* faulty variant of ParseArgs: --input declared without required=True
ParseArgs_Optional ==
    /\ pc = "parse_args"
    /\ pc' = "makedirs"
    /\ UNCHANGED <<run, diskVars, outDirExists, outFiles, ioLog, checkpoint,
                   model, all_image_paths, i, image, inferVars, annVars,
                   image_name, predicted, failedAt, prev>>

\* args = parser.parse_args(): --input is required; without it argparse
\* reports the error and exits before the rest of the script runs
ParseArgs ==
    /\ pc = "parse_args"
    /\ pc' = IF args_input = <<>> THEN "usage_error" ELSE "makedirs"
    /\ UNCHANGED <<run, diskVars, outDirExists, outFiles, ioLog, checkpoint,
                   model, all_image_paths, i, image, inferVars, annVars,
                   image_name, predicted, failedAt, prev>>

(* -------------------------- driver (lines 101-118) ---------------------- *)

\* faulty variant of MakeDirs: os.makedirs without exist_ok=True raises when
\* the directory is already there
MakeDirs_NoExistOk ==
    /\ pc = "makedirs"
    /\ outDirExists' = TRUE
    /\ ioLog' = Append(ioLog, <<"makedirs">>)
    /\ pc' = IF outDirExists THEN "error" ELSE "torch_load"
    /\ UNCHANGED <<run, diskVars, outFiles, checkpoint, model, all_image_paths,
                   i, image, inferVars, annVars, image_name, predicted,
                   failedAt, prev>>

\* os.makedirs(infer_result_path, exist_ok=True)
MakeDirs ==
    /\ pc = "makedirs"
    /\ outDirExists' = TRUE
    /\ ioLog' = Append(ioLog, <<"makedirs">>)
    /\ pc' = "torch_load"
    /\ UNCHANGED <<run, diskVars, outFiles, checkpoint, model, all_image_paths,
                   i, image, inferVars, annVars, image_name, predicted,
                   failedAt, prev>>

\* checkpoint = torch.load(weights_path, map_location=DEVICE)
TorchLoad ==
    /\ pc = "torch_load"
    /\ ioLog' = Append(ioLog, <<"torch.load">>)
    /\ IF ckptFile.state = "missing"
       THEN pc' = "error" /\ UNCHANGED checkpoint
       ELSE pc' = "build_model" /\ checkpoint' = ckptFile
    /\ UNCHANGED <<run, diskVars, outDirExists, outFiles, model,
                   all_image_paths, i, image, inferVars, annVars, image_name,
                   predicted, failedAt, prev>>

\* model = build_model(fine_tune=False, num_classes=len(CLASS_NAMES)).to(DEVICE)
\* model.load_state_dict(checkpoint['model_state_dict'])
BuildModel ==
    /\ pc = "build_model"
    /\ IF checkpoint.state = "ok"
       THEN /\ model' = [built |-> TRUE, training |-> TRUE,
                         weights |-> checkpoint.weights,
                         num_classes |-> Len(CLASS_NAMES)]
            /\ pc' = "glob"
       ELSE pc' = "error" /\ UNCHANGED model
    /\ UNCHANGED <<run, diskVars, outDirExists, outFiles, ioLog, checkpoint,
                   all_image_paths, i, image, inferVars, annVars, image_name,
                   predicted, failedAt, prev>>

\* all_image_paths = glob.glob(os.path.join(args.input, '*.jpg'))
\* transform = get_test_transform(IMAGE_RESIZE)
Glob ==
    /\ pc = "glob"
    /\ \E order \in Orders(GlobNames(inputFiles)) :
           all_image_paths' = [k \in DOMAIN order |-> PathJoin(args_input, <<order[k]>>)]
    /\ ioLog' = Append(ioLog, <<"glob">>)
    /\ pc' = "for"
    /\ UNCHANGED <<run, diskVars, outDirExists, outFiles, checkpoint, model, i,
                   image, inferVars, annVars, image_name, predicted, failedAt,
                   prev>>

(* -------------------------- driver (lines 120-125) ---------------------- *)

\* for i, image_path in enumerate(all_image_paths): print(...)
\* the process exits normally when the list is exhausted
ForLoop ==
    /\ pc = "for"
    /\ IF i < Len(all_image_paths)
       THEN i' = i + 1 /\ pc' = "imread"
       ELSE i' = i /\ pc' = "done"
    /\ UNCHANGED <<run, diskVars, outDirExists, outFiles, ioLog, checkpoint,
                   model, all_image_paths, image, inferVars, annVars,
                   image_name, predicted, failedAt, prev>>

\* image = cv2.imread(image_path): None, without an exception, when the file
\* cannot be decoded
ImRead ==
    /\ pc = "imread"
    /\ LET holds == FileAt(inputFiles, image_path)
       IN  /\ image' = IF holds = "corrupt" THEN NONE ELSE Decode(holds)
           /\ failedAt' = IF holds = "corrupt" /\ failedAt = 0 THEN i ELSE failedAt
    /\ ioLog' = Append(ioLog, <<"imread", image_path>>)
    /\ pc' = "cvtColor"
    /\ UNCHANGED <<run, diskVars, outDirExists, outFiles, checkpoint, model,
                   all_image_paths, i, inferVars, annVars, image_name,
                   predicted, prev>>

\* image = cv2.cvtColor(image, cv2.COLOR_BGR2RGB): raises on None
CvtColor ==
    /\ pc = "cvtColor"
    /\ IF image = NONE
       THEN pc' = "error" /\ UNCHANGED image
       ELSE pc' = "transform" /\ image' = SwapRB(image)
    /\ UNCHANGED <<run, diskVars, outDirExists, outFiles, ioLog, checkpoint,
                   model, all_image_paths, i, inferVars, annVars, image_name,
                   predicted, failedAt, prev>>

\* image = transform(image); image = torch.unsqueeze(image, 0)
Transform ==
    /\ pc = "transform"
    /\ image' = Unsqueeze0(get_test_transform(IMAGE_RESIZE, image))
    /\ pc' = "inference"
    /\ UNCHANGED <<run, diskVars, outDirExists, outFiles, ioLog, checkpoint,
                   model, all_image_paths, i, inferVars, annVars, image_name,
                   predicted, failedAt, prev>>

(* ------------------------ inference (lines 76-99) ----------------------- *)

\* model.eval(); counter = 0
InfEval ==
    /\ pc = "inference"
    /\ model' = [model EXCEPT !.training = FALSE]
    /\ counter' = 0
    /\ ioLog' = Append(ioLog, <<"inference", image_path>>)
    /\ pc' = "no_grad_enter"
    /\ UNCHANGED <<run, diskVars, outDirExists, outFiles, checkpoint,
                   all_image_paths, i, image, grad_enabled, grad_prev, exc,
                   outputs, predictions, output_class, annVars, image_name,
                   predicted, failedAt, prev>>

\* with torch.no_grad(): entry saves the flag and clears it
NoGradEnter ==
    /\ pc = "no_grad_enter"
    /\ grad_prev' = grad_enabled
    /\ grad_enabled' = FALSE
    /\ pc' = "to_device"
    /\ UNCHANGED <<run, diskVars, outDirExists, outFiles, ioLog, checkpoint,
                   model, all_image_paths, i, image, exc, counter, outputs,
                   predictions, output_class, annVars, image_name, predicted,
                   failedAt, prev>>

\* counter += 1; image = testloader; image = image.to(DEVICE)
ToDevice ==
    /\ pc = "to_device"
    /\ counter' = counter + 1
    /\ pc' = "forward"
    /\ UNCHANGED <<run, diskVars, outDirExists, outFiles, ioLog, checkpoint,
                   model, all_image_paths, i, image, grad_enabled, grad_prev,
                   exc, outputs, predictions, output_class, annVars,
                   image_name, predicted, failedAt, prev>>

\* outputs = model(image): the forward pass returns the scores or raises
ForwardPass ==
    /\ pc = "forward"
    /\ \E raises \in BOOLEAN :
           /\ exc' = raises
           /\ outputs' = IF raises THEN outputs ELSE Forward(model, image)
           /\ failedAt' = IF raises /\ failedAt = 0 THEN i ELSE failedAt
    /\ pc' = "no_grad_exit"
    /\ UNCHANGED <<run, diskVars, outDirExists, outFiles, ioLog, checkpoint,
                   model, all_image_paths, i, image, grad_enabled, grad_prev,
                   counter, predictions, output_class, annVars, image_name,
                   predicted, prev>>

\* faulty variant of NoGradExit: the flag is put back only when the block is
\* left without an exception
NoGradExit_SkipOnError ==
    /\ pc = "no_grad_exit"
    /\ grad_enabled' = IF exc THEN grad_enabled ELSE grad_prev
    /\ pc' = IF exc THEN "error" ELSE "softmax"
    /\ UNCHANGED <<run, diskVars, outDirExists, outFiles, ioLog, checkpoint,
                   model, all_image_paths, i, image, grad_prev, exc, counter,
                   outputs, predictions, output_class, annVars, image_name,
                   predicted, failedAt, prev>>

\* leaving the with block, normally or by an exception: the saved flag is
\* put back; an exception then propagates out of the script
NoGradExit ==
    /\ pc = "no_grad_exit"
    /\ grad_enabled' = grad_prev
    /\ pc' = IF exc THEN "error" ELSE "softmax"
    /\ UNCHANGED <<run, diskVars, outDirExists, outFiles, ioLog, checkpoint,
                   model, all_image_paths, i, image, grad_prev, exc, counter,
                   outputs, predictions, output_class, annVars, image_name,
                   predicted, failedAt, prev>>

\* predictions = F.softmax(outputs, dim=1).cpu().numpy()
SoftmaxStep ==
    /\ pc = "softmax"
    /\ predictions' = Softmax(outputs)
    /\ pc' = "argmax"
    /\ UNCHANGED <<run, diskVars, outDirExists, outFiles, ioLog, checkpoint,
                   model, all_image_paths, i, image, grad_enabled, grad_prev,
                   exc, counter, outputs, output_class, annVars, image_name,
                   predicted, failedAt, prev>>

\* output_class = np.argmax(predictions); annotate_image(image, output_class)
\* is entered
ArgMaxStep ==
    /\ pc = "argmax"
    /\ output_class' = ArgMax(predictions)
    /\ predicted' = (image_path :> ArgMax(predictions)) @@ predicted
    /\ pc' = "ann_denormalize"
    /\ UNCHANGED <<run, diskVars, outDirExists, outFiles, ioLog, checkpoint,
                   model, all_image_paths, i, image, grad_enabled, grad_prev,
                   exc, counter, outputs, predictions, annVars, image_name,
                   failedAt, prev>>

(* ---------------------- annotate_image (lines 57-74) -------------------- *)

\* image = denormalize(image).cpu(): the caller's tensor is changed in place
\* and the clamped copy becomes the local image
AnnDenormalize ==
    /\ pc = "ann_denormalize"
    /\ ann_image' = denormalize(image)
    /\ image' = denormalize_inplace(image)
    /\ pc' = "ann_layout"
    /\ UNCHANGED <<run, diskVars, outDirExists, outFiles, ioLog, checkpoint,
                   model, all_image_paths, i, inferVars, class_name, result,
                   image_name, predicted, failedAt, prev>>

\* image = image.squeeze(0).permute((1, 2, 0)).numpy()
\* image = np.ascontiguousarray(image, dtype=np.float32)
\* image = cv2.cvtColor(image, cv2.COLOR_RGB2BGR)
AnnLayout ==
    /\ pc = "ann_layout"
    /\ ann_image' = SwapRB(Permute120(Squeeze0(ann_image)))
    /\ pc' = "ann_lookup"
    /\ UNCHANGED <<run, diskVars, outDirExists, outFiles, ioLog, checkpoint,
                   model, all_image_paths, i, image, inferVars, class_name,
                   result, image_name, predicted, failedAt, prev>>

\* class_name = CLASS_NAMES[int(output_class)]: IndexError when out of range
AnnLookup ==
    /\ pc = "ann_lookup"
    /\ IF PyIndexOk(CLASS_NAMES, output_class)
       THEN /\ class_name' = PyIndex(CLASS_NAMES, output_class)
            /\ pc' = "ann_putText"
            /\ UNCHANGED failedAt
       ELSE /\ pc' = "error"
            /\ failedAt' = IF failedAt = 0 THEN i ELSE failedAt
            /\ UNCHANGED class_name
    /\ UNCHANGED <<run, diskVars, outDirExists, outFiles, ioLog, checkpoint,
                   model, all_image_paths, i, image, inferVars, ann_image,
                   result, image_name, predicted, prev>>

\* cv2.putText(image, class_name, (5, 25), ..., (0, 0, 255), 2, ...)
AnnPutText ==
    /\ pc = "ann_putText"
    /\ ann_image' = putText(ann_image, class_name)
    /\ pc' = "ann_return"
    /\ UNCHANGED <<run, diskVars, outDirExists, outFiles, ioLog, checkpoint,
                   model, all_image_paths, i, image, inferVars, class_name,
                   result, image_name, predicted, failedAt, prev>>

\* return image (annotate_image); return result (inference)
AnnReturn ==
    /\ pc = "ann_return"
    /\ result' = ann_image
    /\ pc' = "image_name"
    /\ UNCHANGED <<run, diskVars, outDirExists, outFiles, ioLog, checkpoint,
                   model, all_image_paths, i, image, inferVars, ann_image,
                   class_name, image_name, predicted, failedAt, prev>>

(* -------------------------- driver (lines 131-137) ---------------------- *)

\* image_name = image_path.split(os.path.sep)[-1]
ImageName ==
    /\ pc = "image_name"
    /\ image_name' = LastComponent(image_path)
    /\ pc' = "imshow"
    /\ UNCHANGED <<run, diskVars, outDirExists, outFiles, ioLog, checkpoint,
                   model, all_image_paths, i, image, inferVars, annVars,
                   predicted, failedAt, prev>>

\* cv2.imshow('Image', result); cv2.waitKey(1): raises when no display can
\* be opened
ImShow ==
    /\ pc = "imshow"
    /\ \E raises \in BOOLEAN :
           /\ pc' = IF raises THEN "error" ELSE "imwrite"
           /\ failedAt' = IF raises /\ failedAt = 0 THEN i ELSE failedAt
    /\ UNCHANGED <<run, diskVars, outDirExists, outFiles, ioLog, checkpoint,
                   model, all_image_paths, i, image, inferVars, annVars,
                   image_name, predicted, prev>>

\* cv2.imwrite(os.path.join(infer_result_path, image_name), result*255.)
\* imwrite reports a file it could not write by returning False; the script
\* drops the returned value and goes on with the loop
ImWrite ==
    /\ pc = "imwrite"
    /\ \E written \in BOOLEAN :
           IF written
           THEN /\ outFiles' = (PathJoin(infer_result_path, <<image_name>>)
                                   :> Encode255(result)) @@ outFiles
                /\ ioLog' = Append(ioLog, <<"imwrite", image_path,
                                    PathJoin(infer_result_path, <<image_name>>)>>)
                /\ UNCHANGED failedAt
           ELSE /\ failedAt' = IF failedAt = 0 THEN i ELSE failedAt
                /\ UNCHANGED <<outFiles, ioLog>>
    /\ pc' = "for"
    /\ UNCHANGED <<run, diskVars, outDirExists, checkpoint, model,
                   all_image_paths, i, image, inferVars, annVars, image_name,
                   predicted, prev>>

(* ------------------------------ second run ------------------------------ *)

\* the driver is started again on the same input directory, with the same
\* checkpoint, after a run that completed with every image written
Rerun ==
    /\ pc = "done"
    /\ failedAt = 0
    /\ run < MaxRuns
    /\ run' = run + 1
    /\ prev' = [files |-> outFiles, predicted |-> predicted]
    /\ pc' = "parse_args"
    /\ ioLog' = <<>>
    /\ checkpoint' = [state |-> "unset", weights |-> 0]
    /\ model' = [built |-> FALSE, training |-> TRUE, weights |-> 0, num_classes |-> 0]
    /\ all_image_paths' = <<>>
    /\ i' = 0
    /\ image' = NONE
    /\ grad_enabled' = TRUE
    /\ grad_prev' = TRUE
    /\ exc' = FALSE
    /\ counter' = 0
    /\ outputs' = <<>>
    /\ predictions' = <<>>
    /\ output_class' = 0
    /\ ann_image' = NONE
    /\ class_name' = ""
    /\ result' = NONE
    /\ image_name' = ""
    /\ predicted' = <<>>
    /\ failedAt' = 0
    /\ UNCHANGED <<diskVars, outDirExists, outFiles>>

Next ==
    \/ ParseArgs
    \/ MakeDirs
    \/ TorchLoad
    \/ BuildModel
    \/ Glob
    \/ ForLoop
    \/ ImRead
    \/ CvtColor
    \/ Transform
    \/ InfEval
    \/ NoGradEnter
    \/ ToDevice
    \/ ForwardPass
    \/ NoGradExit
    \/ SoftmaxStep
    \/ ArgMaxStep
    \/ AnnDenormalize
    \/ AnnLayout
    \/ AnnLookup
    \/ AnnPutText
    \/ AnnReturn
    \/ ImageName
    \/ ImShow
    \/ ImWrite
    \/ Rerun

Spec == Init /\ [][Next]_vars

(* ------------------- annotate_image called on its own ------------------- *)

\* the class ids annotate_image is called with
ClassIds == (0 - Len(CLASS_NAMES) - 1)..(Len(CLASS_NAMES) + 1)

\* the tensor the driver hands to inference for a readable image file
Preprocessed(kind) ==
    Unsqueeze0(get_test_transform(IMAGE_RESIZE, SwapRB(Decode(kind))))

\* annotate_image(image, output_class) entered with any preprocessed image
\* and any class id
InitAnnotate ==
    /\ pc = "ann_denormalize"
    /\ \E kind \in {"img1", "img2", "img3"} : image = Preprocessed(kind)
    /\ output_class \in ClassIds
    /\ run = 1
    /\ args_input = InputDir
    /\ inputFiles = [name \in FileNames |-> "img3"]
    /\ ckptFile = [state |-> "ok", weights |-> 0]
    /\ outDirExists = TRUE
    /\ outFiles = <<>>
    /\ ioLog = <<>>
    /\ checkpoint = [state |-> "ok", weights |-> 0]
    /\ model = [built |-> TRUE, training |-> FALSE, weights |-> 0,
                num_classes |-> Len(CLASS_NAMES)]
    /\ all_image_paths = <<>>
    /\ i = 0
    /\ grad_enabled = TRUE
    /\ grad_prev = TRUE
    /\ exc = FALSE
    /\ counter = 0
    /\ outputs = <<>>
    /\ predictions = <<>>
    /\ ann_image = NONE
    /\ class_name = ""
    /\ result = NONE
    /\ image_name = ""
    /\ predicted = <<>>
    /\ failedAt = 0
    /\ prev = [files |-> <<>>, predicted |-> <<>>]

NextAnnotate ==
    \/ AnnDenormalize
    \/ AnnLayout
    \/ AnnLookup
    \/ AnnPutText
    \/ AnnReturn

SpecAnnotate == InitAnnotate /\ [][NextAnnotate]_vars

(* ------------------------------ properties ------------------------------ *)

AnnotateStages ==
    {"ann_denormalize", "ann_layout", "ann_lookup", "ann_putText", "ann_return"}

\* the events of ioLog with the given tag, in order
Events(tag) == SelectSeq(ioLog, LAMBDA e : e[1] = tag)

\* the [0,1] tensor (3 x H x W) the transform normalizes for an image file
UnitTensor(kind) ==
    ToTensor(CenterCrop(Resize(ToPILImage(SwapRB(Decode(kind))), IMAGE_RESIZE),
                        CROP_SIZE))

\* C1: whenever inference has handed a class id to annotate_image, the id is
\* a valid index into the class name table: 0 <= id < len(CLASS_NAMES).
C1_ClassIdIsValidIndex ==
    pc \in AnnotateStages =>
        /\ 0 <= output_class
        /\ output_class < Len(CLASS_NAMES)
        /\ Len(outputs) = 1

\* C1 witness: annotate_image is about to look up the last class id, chosen
\* by arg-max over a row of proper probabilities.
C1_Witness ==
    /\ pc = "ann_lookup"
    /\ output_class = Len(CLASS_NAMES) - 1
    /\ ~IsNaN(predictions[1][1])

\* C2 (as stated): once the lookup of annotate_image has run, the call went
\* on exactly when 0 <= c < len(CLASS_NAMES) and raised for every other c.
C2_Original ==
    pc \in {"ann_putText", "ann_return", "image_name", "error"} =>
        (pc # "error" <=> (0 <= output_class /\ output_class < Len(CLASS_NAMES)))

\* C2 (amended): annotate_image raises exactly when c >= len(CLASS_NAMES) or
\* c < -len(CLASS_NAMES); for 0 <= c < len it uses CLASS_NAMES[c], for
\* -len <= c < 0 it uses CLASS_NAMES[len + c]; whenever it returns, the array
\* has the spatial dimensions of the 1 x 3 x H x W input.
C2_RaisesOutsidePythonRange ==
    LET n == Len(CLASS_NAMES)
        c == output_class
    IN  /\ pc \in {"ann_putText", "ann_return", "image_name", "error"} =>
              (pc = "error" <=> (c >= n \/ c < 0 - n))
        /\ pc \in {"ann_putText", "ann_return", "image_name"} =>
              class_name = CLASS_NAMES[IF c >= 0 THEN c + 1 ELSE n + c + 1]
        /\ pc = "image_name" =>
              /\ Len(result.shape) = 3
              /\ result.shape[1] = image.shape[3]
              /\ result.shape[2] = image.shape[4]
              /\ result.shape[3] = 3

\* C2 witness: annotate_image has returned for a negative class id.
C2_Witness ==
    /\ pc = "image_name"
    /\ output_class = -1
    /\ class_name = CLASS_NAMES[Len(CLASS_NAMES)]

\* C3: after annotate_image has called denormalize on the 1 x 3 x H x W
\* tensor, every channel holds clamp(x, 0, 1) of the [0,1] image x that was
\* normalized.
C3_DenormalizeInvertsNormalize ==
    (pc = "ann_layout" /\ i > 0) =>
        LET x == UnitTensor(inputFiles[all_image_paths[i][Len(all_image_paths[i])]])
        IN  \A idx \in Indices(ann_image.shape) :
                ann_image.data[idx] = Clamp01(x.data[Tail(idx)])

\* C4: every value of the array annotate_image returned lies in [0,1], the
\* pixels under the text included.
C4_ResultInUnitRange ==
    pc \in {"image_name", "imshow", "imwrite"} =>
        \A idx \in Indices(result.shape) : InUnit(result.data[idx])

\* C5: with --input given, a loadable checkpoint and no *.jpg in the input
\* directory, the run never fails, reads no image, calls inference zero
\* times, writes no file and has the output directory in place from
\* os.makedirs on.
C5_NoJpgNoWork ==
    (/\ args_input # <<>>
     /\ ckptFile.state = "ok"
     /\ \A f \in {"a.jpg", "b.jpg"} : inputFiles[f] = "absent") =>
        /\ pc \in {"parse_args", "makedirs", "torch_load", "build_model",
                   "glob", "for", "done"}
        /\ Events("imread") = <<>>
        /\ Events("inference") = <<>>
        /\ Events("imwrite") = <<>>
        /\ outFiles = <<>>
        /\ pc \notin {"parse_args", "makedirs"} => outDirExists

\* C5 witness: a run over a directory without *.jpg has ended normally.
C5_Witness ==
    /\ pc = "done"
    /\ all_image_paths = <<>>
    /\ inputFiles["c.png"] # "absent"
    /\ outDirExists

\* C6: when a run has ended normally with no operation having failed, the
\* enumerated files are exactly the *.jpg entries, inference ran once per
\* file in enumeration order, each file produced one write, in that order,
\* to the output directory under its own base name, the written paths are
\* pairwise distinct, and the output directory holds nothing else.
C6_OneOutputPerInput ==
    (pc = "done" /\ failedAt = 0) =>
        LET n     == Len(all_image_paths)
            base(k) == all_image_paths[k][Len(all_image_paths[k])]
            wr    == Events("imwrite")
        IN  /\ {all_image_paths[k] : k \in 1..n}
                  = {InputDir \o <<name>> : name \in
                        {f \in {"a.jpg", "b.jpg"} : inputFiles[f] # "absent"}}
            /\ Events("inference")
                  = [k \in 1..n |-> <<"inference", all_image_paths[k]>>]
            /\ wr = [k \in 1..n |->
                        <<"imwrite", all_image_paths[k],
                          infer_result_path \o <<base(k)>>>>]
            /\ \A j, k \in 1..n : j # k => wr[j][3] # wr[k][3]
            /\ DOMAIN outFiles = {wr[k][3] : k \in 1..n}

\* C6 witness: a run over two images has ended normally, both written.
C6_Witness ==
    /\ pc = "done"
    /\ failedAt = 0
    /\ Len(all_image_paths) = 2
    /\ Cardinality(DOMAIN outFiles) = 2

\* C7: when --input is missing the process gets no further than the
\* argument error: no directory is created, the checkpoint is not read,
\* nothing is enumerated, read or written.
C7_MissingInputNoIO ==
    args_input = <<>> =>
        /\ pc \in {"parse_args", "usage_error"}
        /\ ioLog = <<>>
        /\ ~outDirExists
        /\ outFiles = <<>>
        /\ checkpoint.state = "unset"
        /\ all_image_paths = <<>>

\* C7 witness: the process has ended with the argument error.
C7_Witness == pc = "usage_error" /\ args_input = <<>>

\* C8: a later run on the same input directory with the same checkpoint,
\* ended normally with nothing failed, leaves exactly the files of the
\* previous run, each with the same samples, and used the same class id for
\* every image; and no run after the first fails before its image loop.
C8_SecondRunIdempotent ==
    /\ (run >= 2 /\ pc = "done" /\ failedAt = 0) =>
           /\ outFiles = prev.files
           /\ predicted = prev.predicted
    /\ (run >= 2 /\ pc = "error") => failedAt # 0
    /\ (run >= 2 /\ pc \notin {"parse_args", "makedirs"}) => outDirExists

\* C8 witness: a second run over two images has ended normally.
C8_Witness ==
    /\ run = 2
    /\ pc = "done"
    /\ failedAt = 0
    /\ Len(all_image_paths) = 2
    /\ predicted # <<>>

\* C9: once an operation on the image at some position has failed, the loop
\* never moves past that position, the run does not end normally, and the
\* files written are exactly those of the images before it.
C9_ErrorAbortsRun ==
    failedAt # 0 =>
        /\ i = failedAt
        /\ pc \notin {"for", "done"}
        /\ Events("imwrite")
              = [k \in 1..(failedAt - 1) |->
                    <<"imwrite", all_image_paths[k],
                      infer_result_path \o
                          <<all_image_paths[k][Len(all_image_paths[k])]>>>>]

\* C10 (as stated): from the entry of the no_grad block to the return of
\* inference, softmax, arg-max and annotate_image included, gradient
\* tracking is off; after the call, or after the error, it is on again.
C10_Original ==
    /\ pc \in ({"to_device", "forward", "no_grad_exit", "softmax", "argmax"}
                  \cup AnnotateStages) => ~grad_enabled
    /\ pc \in {"image_name", "imshow", "imwrite", "for", "done", "error"}
          => grad_enabled

\* C10 (amended): gradient tracking is off exactly inside the with block
\* (the move to the device and the forward pass); leaving the block, with
\* or without an exception, puts the previous state back, so softmax,
\* arg-max and annotate_image run with the previous state.
C10_NoGradScopedToForward ==
    /\ pc \in {"to_device", "forward", "no_grad_exit"} =>
           (~grad_enabled /\ grad_prev)
    /\ pc \notin {"to_device", "forward", "no_grad_exit"} => grad_enabled

\* C10 witness: the forward pass raised and the process ended in error with
\* gradient tracking back on.
C10_Witness ==
    /\ pc = "error"
    /\ exc
    /\ grad_enabled
    /\ Events("inference") # <<>>

====
